---- MODULE Spec2Model ----
(***************************************************************************)
(* Model of the Municode MCP server (src/municode-mcp-server.py): the      *)
(* remote API client MunicodeClient and the tool dispatcher                *)
(* handle_call_tool.  Python strings are TLA+ strings handled character by *)
(* character; JSON values are tagged records; a remote reply is either a   *)
(* transport failure or an HTTP status with a body text.  Spec serves one  *)
(* call after the other; SpecProcess is the whole process, from the import *)
(* of the module over calls that overlap to the close of the client.       *)
(*                                                                         *)
(* The remote service is outside the program.  Its replies are: a          *)
(* transport failure, a status outside 2xx, a 2xx body that is no JSON, or *)
(* a 2xx body holding a JSON value of the shape the handler reads it as (a *)
(* dict for a lookup, a list of dicts for products and municipalities,     *)
(* product names that are strings when present).  A ClientID is absent,    *)
(* null, 0 or a positive number.                                           *)
(***************************************************************************)
EXTENDS Naturals, Integers, Sequences, FiniteSets, TLC

(***************************************************************************)
(* Bounds of the model.                                                    *)
(***************************************************************************)
\* largest municipality identifier the remote service hands out
MaxClientId == 2
\* longest product sequence returned by /ClientContent
MaxProducts == 2
\* longest municipality sequence returned by /Clients/stateAbbr
MaxClients == 1

(***************************************************************************)
(* Python str methods used by the handler.                                 *)
(***************************************************************************)
UpperCaseLetters == "ABCDEFGHIJKLMNOPQRSTUVWXYZ"
LowerCaseLetters == "abcdefghijklmnopqrstuvwxyz"

\* the character of s at position i, "" past the end
CharAt(s, i) == IF i >= 1 /\ i <= Len(s) THEN SubSeq(s, i, i) ELSE ""

\* position of character c in alphabet, 0 when absent
IndexIn(c, alphabet) ==
    IF \E i \in 1..Len(alphabet) : CharAt(alphabet, i) = c
    THEN CHOOSE i \in 1..Len(alphabet) : CharAt(alphabet, i) = c
    ELSE 0

\* the characters of a text, as a set
Chars(s) == {CharAt(s, i) : i \in 1..Len(s)}

\* the lower-case letter of each upper-case letter, and the reverse
ToLower == [c \in Chars(UpperCaseLetters) |->
               CharAt(LowerCaseLetters, IndexIn(c, UpperCaseLetters))]
ToUpper == [c \in Chars(LowerCaseLetters) |->
               CharAt(UpperCaseLetters, IndexIn(c, LowerCaseLetters))]

LowerChar(c) == IF c \in DOMAIN ToLower THEN ToLower[c] ELSE c

UpperChar(c) == IF c \in DOMAIN ToUpper THEN ToUpper[c] ELSE c

RECURSIVE lower(_)
\* str.lower()
lower(s) == IF s = "" THEN "" ELSE LowerChar(Head(s)) \o lower(Tail(s))

RECURSIVE upper(_)
\* str.upper()
upper(s) == IF s = "" THEN "" ELSE UpperChar(Head(s)) \o upper(Tail(s))

\* str.startswith(prefix)
startswith(s, prefix) ==
    Len(prefix) <= Len(s) /\ SubSeq(s, 1, Len(prefix)) = prefix

RECURSIVE replace(_, _, _)
\* str.replace(old, new), old not empty: every occurrence, left to right
replace(s, old, new) ==
    IF s = "" THEN ""
    ELSE IF startswith(s, old)
         THEN new \o replace(SubSeq(s, Len(old) + 1, Len(s)), old, new)
         ELSE Head(s) \o replace(Tail(s), old, new)

\* the Python expression `sub in s` on two strings
Contains(sub, s) ==
    \E i \in 1..(Len(s) + 1) :
        /\ i + Len(sub) - 1 <= Len(s)
        /\ SubSeq(s, i, i + Len(sub) - 1) = sub

(***************************************************************************)
(* JSON values as Python holds them: None, bool, int, str, list, dict.     *)
(* A dict is the sequence of its (key, value) items in insertion order.    *)
(***************************************************************************)
None == [t |-> "null"]
JBool(b) == [t |-> "bool", b |-> b]
JNum(n) == [t |-> "num", n |-> n]
JStr(s) == [t |-> "str", s |-> s]
JArr(a) == [t |-> "arr", a |-> a]
JObj(items) == [t |-> "obj", items |-> items]

\* Python truth value of a JSON value (the test of `if x:`)
Truthy(v) ==
    CASE v.t = "null" -> FALSE
      [] v.t = "bool" -> v.b
      [] v.t = "num"  -> v.n # 0
      [] v.t = "str"  -> v.s # ""
      [] v.t = "arr"  -> v.a # <<>>
      [] v.t = "obj"  -> v.items # <<>>

\* dict.get(key, default)
dict_get(d, key, default) ==
    IF \E i \in 1..Len(d.items) : d.items[i][1] = key
    THEN d.items[CHOOSE i \in 1..Len(d.items) : d.items[i][1] = key][2]
    ELSE default

RECURSIVE Spaces(_)
Spaces(n) == IF n = 0 THEN "" ELSE " " \o Spaces(n - 1)

RECURSIVE Encode(_, _, _), EncodeItems(_, _, _), EncodeMembers(_, _, _)
\* json.dumps: the text of v at nesting depth `level`, `indent` spaces a level
Encode(v, indent, level) ==
    CASE v.t = "null" -> "null"
      [] v.t = "bool" -> (IF v.b THEN "true" ELSE "false")
      [] v.t = "num"  -> ToString(v.n)
      [] v.t = "str"  -> "\"" \o v.s \o "\""
      [] v.t = "arr"  ->
            IF v.a = <<>> THEN "[]"
            ELSE "[\n" \o EncodeItems(v.a, indent, level + 1)
                 \o "\n" \o Spaces(indent * level) \o "]"
      [] v.t = "obj"  ->
            IF v.items = <<>> THEN "{}"
            ELSE "{\n" \o EncodeMembers(v.items, indent, level + 1)
                 \o "\n" \o Spaces(indent * level) \o "}"

EncodeItems(a, indent, level) ==
    Spaces(indent * level) \o Encode(Head(a), indent, level)
    \o (IF Len(a) = 1 THEN "" ELSE ",\n" \o EncodeItems(Tail(a), indent, level))

EncodeMembers(items, indent, level) ==
    Spaces(indent * level) \o "\"" \o Head(items)[1] \o "\": "
    \o Encode(Head(items)[2], indent, level)
    \o (IF Len(items) = 1 THEN ""
        ELSE ",\n" \o EncodeMembers(Tail(items), indent, level))

\* Mutant: str(v) in place of json.dumps: None, True and False are no JSON.
json_dumps_AsStr(v) ==
    CASE v.t = "null" -> "None"
      [] v.t = "bool" -> (IF v.b THEN "True" ELSE "False")
      [] OTHER        -> Encode(v, 2, 0)

\* json.dumps(v, indent=2)
json_dumps(v) == Encode(v, 2, 0)

(***************************************************************************)
(* response.json(): a recursive-descent JSON decoder.  Every parser takes  *)
(* the text and a position and returns [ok, v, i]: the value read and the  *)
(* position after it, or ok = FALSE on malformed text.                     *)
(***************************************************************************)
Digits == "0123456789"
\* the value of each digit character
DigitValue == [c \in Chars(Digits) |-> IndexIn(c, Digits) - 1]
Whitespace == {" ", "\n", "\t", "\r"}
ParseError == [ok |-> FALSE, v |-> None, i |-> 0]
Parsed(v, i) == [ok |-> TRUE, v |-> v, i |-> i]

\* the n characters of s from position i on, fewer at the end of s
Slice(s, i, n) == SubSeq(s, i, IF i + n - 1 <= Len(s) THEN i + n - 1 ELSE Len(s))

RECURSIVE SkipWs(_, _)
SkipWs(s, i) == IF CharAt(s, i) \in Whitespace THEN SkipWs(s, i + 1) ELSE i

RECURSIVE ScanString(_, _)
\* position of the closing quote of the string whose text starts at i
ScanString(s, i) ==
    IF i > Len(s) THEN 0
    ELSE IF CharAt(s, i) = "\"" THEN i
    ELSE ScanString(s, i + 1)

RECURSIVE ScanNumber(_, _, _)
\* the digits from position i on: [n, i] the number read so far and the end
ScanNumber(s, i, n) ==
    IF CharAt(s, i) \in DOMAIN DigitValue
    THEN ScanNumber(s, i + 1, 10 * n + DigitValue[CharAt(s, i)])
    ELSE [n |-> n, i |-> i]

ParseText(s, i) ==
    LET close == ScanString(s, i + 1)
    IN  IF close = 0 THEN ParseError
        ELSE Parsed(SubSeq(s, i + 1, close - 1), close + 1)

RECURSIVE ParseValue(_, _), ParseItems(_, _, _), ParseMembers(_, _, _)
ParseValue(s, i0) ==
    LET i == SkipWs(s, i0)
        c == CharAt(s, i)
    IN  CASE c = "n" /\ Slice(s, i, 4) = "null"  -> Parsed(None, i + 4)
          [] c = "t" /\ Slice(s, i, 4) = "true"  -> Parsed(JBool(TRUE), i + 4)
          [] c = "f" /\ Slice(s, i, 5) = "false" -> Parsed(JBool(FALSE), i + 5)
          [] c \in DOMAIN DigitValue ->
                LET r == ScanNumber(s, i, 0) IN Parsed(JNum(r.n), r.i)
          [] c = "\"" ->
                LET r == ParseText(s, i)
                IN  IF r.ok THEN Parsed(JStr(r.v), r.i) ELSE ParseError
          [] c = "[" ->
                LET j == SkipWs(s, i + 1)
                IN  IF CharAt(s, j) = "]" THEN Parsed(JArr(<<>>), j + 1)
                    ELSE ParseItems(s, j, <<>>)
          [] c = "{" ->
                LET j == SkipWs(s, i + 1)
                IN  IF CharAt(s, j) = "}" THEN Parsed(JObj(<<>>), j + 1)
                    ELSE ParseMembers(s, j, <<>>)
          [] OTHER -> ParseError

\* the items of a list from position i on, `acc` the items read so far
ParseItems(s, i, acc) ==
    LET r == ParseValue(s, i)
    IN  IF ~r.ok THEN ParseError
        ELSE LET j == SkipWs(s, r.i)
             IN  CASE CharAt(s, j) = "," -> ParseItems(s, j + 1, Append(acc, r.v))
                   [] CharAt(s, j) = "]" -> Parsed(JArr(Append(acc, r.v)), j + 1)
                   [] OTHER -> ParseError

\* the members of a dict from position i on, `acc` the items read so far
ParseMembers(s, i, acc) ==
    LET k == SkipWs(s, i)
        key == IF CharAt(s, k) = "\"" THEN ParseText(s, k) ELSE ParseError
        colon == IF key.ok THEN SkipWs(s, key.i) ELSE 0
        r == IF key.ok /\ CharAt(s, colon) = ":"
             THEN ParseValue(s, colon + 1) ELSE ParseError
    IN  IF ~r.ok THEN ParseError
        ELSE LET j == SkipWs(s, r.i)
                 item == <<key.v, r.v>>
             IN  CASE CharAt(s, j) = "," -> ParseMembers(s, j + 1, Append(acc, item))
                   [] CharAt(s, j) = "}" -> Parsed(JObj(Append(acc, item)), j + 1)
                   [] OTHER -> ParseError

\* json.loads(text): [ok, v]; ok = FALSE is a JSONDecodeError
json_loads(s) ==
    LET r == ParseValue(s, 1)
    IN  IF r.ok /\ SkipWs(s, r.i) = Len(s) + 1
        THEN [ok |-> TRUE, v |-> r.v]
        ELSE [ok |-> FALSE, v |-> None]

(***************************************************************************)
(* Exceptions.  str(e) is the message.  Every class below derives from     *)
(* Python's Exception.                                                     *)
(***************************************************************************)
Exception(type, msg) == [type |-> type, msg |-> msg]
str(e) == e.msg

\* arguments[key] on a mapping without the key
KeyError(key) == Exception("KeyError", "'" \o key \o "'")

\* str() of a JSON value inside an f-string
format(v) ==
    CASE v.t = "null" -> "None"
      [] v.t = "bool" -> (IF v.b THEN "True" ELSE "False")
      [] v.t = "num"  -> ToString(v.n)
      [] v.t = "str"  -> v.s
      [] OTHER        -> json_dumps(v)

(***************************************************************************)
(* MunicodeClient: one method per endpoint.  A method builds its request   *)
(* (url and query parameters), awaits the reply, raises on a failed reply  *)
(* and returns the decoded body.                                           *)
(***************************************************************************)
MUNICODE_API_BASE == "https://api.municode.com"
MUNICODE_LIBRARY_BASE == "https://library.municode.com"

Request(method, url, params) == [method |-> method, url |-> url, params |-> params]

get_states(state_abbr) ==
    Request("get_states", MUNICODE_API_BASE \o "/States/abbr",
            [stateAbbr |-> state_abbr])

get_clients_by_state(state_abbr) ==
    Request("get_clients_by_state", MUNICODE_API_BASE \o "/Clients/stateAbbr",
            [stateAbbr |-> state_abbr])

get_client_by_name(client_name, state_abbr) ==
    Request("get_client_by_name", MUNICODE_API_BASE \o "/Clients/name",
            [clientName |-> client_name, stateAbbr |-> state_abbr])

get_client_content(client_id) ==
    Request("get_client_content",
            MUNICODE_API_BASE \o "/ClientContent/" \o format(client_id),
            <<>>)

get_toc_children(job_id, product_id, node_id) ==
    Request("get_toc_children", MUNICODE_API_BASE \o "/codesToc/children",
            [jobId |-> job_id, productId |-> product_id, nodeId |-> node_id])

get_codes_content(job_id, product_id, node_id) ==
    Request("get_codes_content", MUNICODE_API_BASE \o "/CodesContent",
            [jobId |-> job_id, productId |-> product_id, nodeId |-> node_id])

\* Mutant: the page number and the page size change places.
search_munidocs_PagesSwapped(client_id, search_text, page_num, page_size, titles_only, is_advanced) ==
    Request("search_munidocs", MUNICODE_API_BASE \o "/search",
            [clientId |-> client_id,
             searchText |-> search_text,
             pageNum |-> page_size,
             pageSize |-> page_num,
             titlesOnly |-> titles_only,
             isAdvanced |-> is_advanced,
             isAutocomplete |-> FALSE,
             mode |-> "standard",
             sort |-> 0,
             fragmentSize |-> 200,
             contentTypeId |-> "",
             stateId |-> 0])

search_munidocs(client_id, search_text, page_num, page_size, titles_only, is_advanced) ==
    Request("search_munidocs", MUNICODE_API_BASE \o "/search",
            [clientId |-> client_id,
             searchText |-> search_text,
             pageNum |-> page_num,
             pageSize |-> page_size,
             titlesOnly |-> titles_only,
             isAdvanced |-> is_advanced,
             isAutocomplete |-> FALSE,
             mode |-> "standard",
             sort |-> 0,
             fragmentSize |-> 200,
             contentTypeId |-> "",
             stateId |-> 0])

\* the default of search_munidocs's is_advanced parameter
IsAdvancedDefault == FALSE

(***************************************************************************)
(* Replies.  `await self.client.get(...)` either raises a transport error  *)
(* or yields a response with a status and a body text.                     *)
(***************************************************************************)
TransportError(type, msg) == [kind |-> "transport", type |-> type, msg |-> msg]
Response(status, body) == [kind |-> "http", status |-> status, body |-> body]

\* response.raise_for_status(): the error raised for this response, if any
is_success(status) == status >= 200 /\ status <= 299

HTTPStatusError(status, url) ==
    Exception("HTTPStatusError",
              (IF status >= 500 THEN "Server error '" ELSE "Client error '")
              \o ToString(status) \o "' for url '" \o url \o "'")

JSONDecodeError == Exception("JSONDecodeError", "Expecting value: line 1 column 1 (char 0)")

\* What the awaited client method does with the reply to request req:
\* [raised, exc, value]: the exception it raises, or the value it returns.
Raised(e) == [raised |-> TRUE, exc |-> e, value |-> None]
Returned(v) == [raised |-> FALSE, exc |-> Exception("", ""), value |-> v]

ClientResult(req, reply) ==
    IF reply.kind = "transport" THEN Raised(Exception(reply.type, reply.msg))
    ELSE IF ~is_success(reply.status) THEN Raised(HTTPStatusError(reply.status, req.url))
    ELSE LET decoded == json_loads(reply.body)
         IN  IF decoded.ok THEN Returned(decoded.v) ELSE Raised(JSONDecodeError)

(***************************************************************************)
(* handle_call_tool.  The handler runs from its entry, or from the return  *)
(* of an awaited client method, to its next await, return or raise.  A     *)
(* step is [k, req, frame, text, exc]: k = "await" with the request issued *)
(* and the local variables kept across it, k = "return" with the text of   *)
(* the single TextContent returned, k = "raise" with the exception.        *)
(***************************************************************************)
NoRequest == Request("", "", <<>>)
NoException == Exception("", "")

Await(req, frame) ==
    [k |-> "await", req |-> req, frame |-> frame, text |-> "", exc |-> NoException]
Return(text) ==
    [k |-> "return", req |-> NoRequest, frame |-> <<>>, text |-> text, exc |-> NoException]
Raise(e) ==
    [k |-> "raise", req |-> NoRequest, frame |-> <<>>, text |-> "", exc |-> e]

\* the first key of `keys`, in order, that the mapping lacks; "" when none
RECURSIVE FirstMissing(_, _)
FirstMissing(arguments, keys) ==
    IF keys = <<>> THEN ""
    ELSE IF Head(keys) \notin DOMAIN arguments THEN Head(keys)
    ELSE FirstMissing(arguments, Tail(keys))

\* arguments.get(key, default)
arguments_get(arguments, key, default) ==
    IF key \in DOMAIN arguments THEN arguments[key] ELSE default

\* the default of get_code_structure's node_id
DefaultNodeId == "10121"
\* the defaults of search_municipal_codes
DefaultPageSize == 10
DefaultPageNumber == 1
DefaultTitlesOnly == FALSE

\* the test `"code" in product.get("ProductName", "").lower()`
IsCodeProduct(product) ==
    Contains("code", lower(dict_get(product, "ProductName", JStr("")).s))

RECURSIVE FirstCodeProduct_LastMatch(_)
\* Mutant: the loop has no break, so the last match is kept.
FirstCodeProduct_LastMatch(client_content) ==
    IF client_content = <<>> THEN None
    ELSE LET later == FirstCodeProduct_LastMatch(Tail(client_content))
         IN  IF later # None THEN later
             ELSE IF IsCodeProduct(Head(client_content)) THEN Head(client_content)
             ELSE None

RECURSIVE FirstCodeProduct_Fallback(_)
\* Mutant: with no match the first product is used.
FirstCodeProduct_Fallback(client_content) ==
    IF client_content = <<>> THEN None
    ELSE IF \E k \in 1..Len(client_content) : IsCodeProduct(client_content[k])
         THEN client_content[CHOOSE k \in 1..Len(client_content) :
                               /\ IsCodeProduct(client_content[k])
                               /\ \A j \in 1..(k - 1) : ~IsCodeProduct(client_content[j])]
         ELSE Head(client_content)

RECURSIVE FirstCodeProduct(_)
\* the loop `for product in client_content: if "code" in ...lower(): break`
FirstCodeProduct(client_content) ==
    IF client_content = <<>> THEN None
    ELSE IF IsCodeProduct(Head(client_content))
         THEN Head(client_content)
         ELSE FirstCodeProduct(Tail(client_content))

\* one entry of list_municipalities's formatted_clients
FormatClient(client) ==
    JObj(<< <<"name", dict_get(client, "ClientName", JStr("Unknown"))>>,
            <<"id", dict_get(client, "ClientID", None)>>,
            <<"population_range", dict_get(client, "PopRangeId", None)>>,
            <<"classification", dict_get(client, "ClassificationId", None)>>,
            <<"website", dict_get(client, "Website", None)>>,
            <<"city", dict_get(client, "City", None)>>,
            <<"zip_code", dict_get(client, "ZipCode", None)>> >>)

\* Mutant: the message leaves the state out.
NotFoundText_WithoutState(municipality_name, state_abbr) ==
    "Municipality '" \o municipality_name \o "' not found"

NotFoundText(municipality_name, state_abbr) ==
    "Municipality '" \o municipality_name \o "' not found in " \o state_abbr

NoCodeText == "No code of ordinances found for this municipality"

\* Mutant: the identifier is never tested.
HasClientId_Unchecked(client_id) == TRUE

\* the `if client_id:` test on the looked-up identifier
HasClientId(client_id) == Truthy(client_id)

\* Mutant: the lookup record is left out of the result.
MunicipalityInfo_ProductsOnly(client_info, client_content) ==
    JObj(<< <<"available_products", client_content>> >>)

\* get_municipality_info's result object
MunicipalityInfo(client_info, client_content) ==
    JObj(<< <<"client_info", client_info>>, <<"available_products", client_content>> >>)

MunicipalityInfoWithoutId(client_info) ==
    JObj(<< <<"client_info", client_info>> >>)

\* Mutant: commas stay in the name.
MunicipalityUrl_KeepsCommas(municipality_name, state_abbr) ==
    LET formatted_name == replace(lower(municipality_name), " ", "_")
    IN  MUNICODE_LIBRARY_BASE \o "/" \o state_abbr \o "/" \o formatted_name
        \o "/codes/code_of_ordinances"

\* get_municipality_url's url
MunicipalityUrl(municipality_name, state_abbr) ==
    LET formatted_name == replace(replace(lower(municipality_name), " ", "_"), ",", "")
    IN  MUNICODE_LIBRARY_BASE \o "/" \o state_abbr \o "/" \o formatted_name
        \o "/codes/code_of_ordinances"

\* Mutant: tool names are compared without regard to case.
Branch_IgnoringCase(name) ==
    IF lower(name) \in {"get_states_info", "list_municipalities", "get_municipality_info",
                        "get_code_structure", "get_code_section", "search_municipal_codes",
                        "get_municipality_url"}
    THEN lower(name) ELSE "else"

\* the branch of the if/elif chain a tool name selects
Branch(name) ==
    IF name \in {"get_states_info", "list_municipalities", "get_municipality_info",
                 "get_code_structure", "get_code_section", "search_municipal_codes",
                 "get_municipality_url"}
    THEN name ELSE "else"

\* From the handler's entry to its first await, return or raise.
Entry(tool, arguments) ==
    LET name == Branch(tool) IN
    CASE name \in {"get_states_info", "list_municipalities"} ->
            IF "state_abbr" \notin DOMAIN arguments THEN Raise(KeyError("state_abbr"))
            ELSE LET state_abbr == upper(arguments["state_abbr"])
                 IN  Await(IF name = "get_states_info"
                           THEN get_states(state_abbr)
                           ELSE get_clients_by_state(state_abbr),
                           [state_abbr |-> state_abbr])
      [] name \in {"get_municipality_info", "get_code_structure"} ->
            LET missing == FirstMissing(arguments, <<"municipality_name", "state_abbr">>)
            IN  IF missing # "" THEN Raise(KeyError(missing))
                ELSE LET municipality_name == arguments["municipality_name"]
                         state_abbr == upper(arguments["state_abbr"])
                     IN  Await(get_client_by_name(municipality_name, state_abbr),
                               IF name = "get_municipality_info"
                               THEN [municipality_name |-> municipality_name,
                                     state_abbr |-> state_abbr]
                               ELSE [municipality_name |-> municipality_name,
                                     state_abbr |-> state_abbr,
                                     node_id |-> arguments_get(arguments, "node_id",
                                                               DefaultNodeId)])
      [] name = "get_code_section" ->
            LET missing == FirstMissing(arguments,
                                        <<"municipality_name", "state_abbr", "node_id">>)
            IN  IF missing # "" THEN Raise(KeyError(missing))
                ELSE LET municipality_name == arguments["municipality_name"]
                         state_abbr == upper(arguments["state_abbr"])
                     IN  Await(get_client_by_name(municipality_name, state_abbr),
                               [municipality_name |-> municipality_name,
                                state_abbr |-> state_abbr,
                                node_id |-> arguments["node_id"]])
      [] name = "search_municipal_codes" ->
            LET missing == FirstMissing(arguments,
                                        <<"municipality_name", "state_abbr", "search_query">>)
            IN  IF missing # "" THEN Raise(KeyError(missing))
                ELSE LET municipality_name == arguments["municipality_name"]
                         state_abbr == upper(arguments["state_abbr"])
                     IN  Await(get_client_by_name(municipality_name, state_abbr),
                               [municipality_name |-> municipality_name,
                                state_abbr |-> state_abbr,
                                search_query |-> arguments["search_query"],
                                page_size |-> arguments_get(arguments, "page_size", DefaultPageSize),
                                page_number |-> arguments_get(arguments, "page_number", DefaultPageNumber),
                                titles_only |-> arguments_get(arguments, "titles_only", DefaultTitlesOnly)])
      [] name = "get_municipality_url" ->
            LET missing == FirstMissing(arguments, <<"municipality_name", "state_abbr">>)
            IN  IF missing # "" THEN Raise(KeyError(missing))
                ELSE LET municipality_name == arguments["municipality_name"]
                         state_abbr == lower(arguments["state_abbr"])
                         url == MunicipalityUrl(municipality_name, state_abbr)
                     IN  Return("Municode Library URL for " \o municipality_name \o ", "
                                \o upper(state_abbr) \o ":\n" \o url)
      [] OTHER -> Return("Unknown tool: " \o tool)

\* Mutant: a product list without a code product is fetched a second time
\* before the handler gives up.
AfterProducts_FetchedAgain(name, frame, client_content) ==
    LET code_product == FirstCodeProduct(client_content.a)
    IN  IF ~Truthy(code_product)
        THEN IF "again" \in DOMAIN frame THEN Return(NoCodeText)
             ELSE Await(get_client_content(frame.client_id), [again |-> TRUE] @@ frame)
        ELSE LET job_id == dict_get(code_product, "Id", None)
                 product_id == dict_get(code_product, "ProductID", None)
             IN  Await(IF name = "get_code_structure"
                       THEN get_toc_children(job_id, product_id, frame.node_id)
                       ELSE get_codes_content(job_id, product_id, frame.node_id),
                       frame)

\* After get_client_content returned client_content to get_code_structure or
\* get_code_section: select the code product and ask for its TOC or content.
AfterProducts(name, frame, client_content) ==
    LET code_product == FirstCodeProduct(client_content.a)
    IN  IF ~Truthy(code_product) THEN Return(NoCodeText)
        ELSE LET job_id == dict_get(code_product, "Id", None)
                 product_id == dict_get(code_product, "ProductID", None)
             IN  Await(IF name = "get_code_structure"
                       THEN get_toc_children(job_id, product_id, frame.node_id)
                       ELSE get_codes_content(job_id, product_id, frame.node_id),
                       frame)

\* Mutant: get_code_structure and get_code_section ask for the TOC or the
\* content right after the lookup, without fetching the products.
AfterLookup_SkipsProducts(name, frame, client_info) ==
    LET client_id == dict_get(client_info, "ClientID", None)
        kept == [client_info |-> client_info, client_id |-> client_id] @@ frame
    IN  CASE name = "get_municipality_info" ->
            IF HasClientId(client_id)
            THEN Await(get_client_content(client_id), kept)
            ELSE Return(json_dumps(MunicipalityInfoWithoutId(client_info)))
      [] name = "search_municipal_codes" ->
            IF ~HasClientId(client_id)
            THEN Return(NotFoundText(frame.municipality_name, frame.state_abbr))
            ELSE Await(search_munidocs(client_id, frame.search_query,
                                       frame.page_number, frame.page_size,
                                       frame.titles_only, IsAdvancedDefault),
                       kept)
      [] OTHER ->
            IF ~HasClientId(client_id)
            THEN Return(NotFoundText(frame.municipality_name, frame.state_abbr))
            ELSE Await(IF name = "get_code_structure"
                       THEN get_toc_children(client_id, None, frame.node_id)
                       ELSE get_codes_content(client_id, None, frame.node_id),
                       kept)

\* After get_client_by_name returned client_info: read the identifier and
\* go on with the products or the search, or end without one.
AfterLookup(name, frame, client_info) ==
    LET client_id == dict_get(client_info, "ClientID", None)
        kept == [client_info |-> client_info, client_id |-> client_id] @@ frame
    IN  CASE name = "get_municipality_info" ->
            IF HasClientId(client_id)
            THEN Await(get_client_content(client_id), kept)
            ELSE Return(json_dumps(MunicipalityInfoWithoutId(client_info)))
      [] name = "search_municipal_codes" ->
            IF ~HasClientId(client_id)
            THEN Return(NotFoundText(frame.municipality_name, frame.state_abbr))
            ELSE Await(search_munidocs(client_id, frame.search_query,
                                       frame.page_number, frame.page_size,
                                       frame.titles_only, IsAdvancedDefault),
                       kept)
      [] OTHER ->
            IF ~HasClientId(client_id)
            THEN Return(NotFoundText(frame.municipality_name, frame.state_abbr))
            ELSE Await(get_client_content(client_id), kept)

\* From the return of the awaited client method `method` with `value` to the
\* handler's next await, return or raise.
Resume(tool, frame, method, value) ==
    LET name == Branch(tool) IN
    CASE method = "get_states" -> Return(json_dumps(value))
      [] method = "get_clients_by_state" ->
            LET formatted_clients == [k \in 1..Len(value.a) |-> FormatClient(value.a[k])]
            IN  Return("Found " \o ToString(Len(formatted_clients))
                       \o " municipalities in " \o frame.state_abbr \o ":\n\n"
                       \o json_dumps(JArr(formatted_clients)))
      [] method = "get_client_by_name" -> AfterLookup(name, frame, value)
      [] method = "get_client_content" ->
            IF name = "get_municipality_info"
            THEN Return(json_dumps(MunicipalityInfo(frame.client_info, value)))
            ELSE AfterProducts(name, frame, value)
      [] method = "get_toc_children" ->
            Return("Code structure for " \o frame.municipality_name \o ", "
                   \o frame.state_abbr \o ":\n\n" \o json_dumps(value))
      [] method = "get_codes_content" ->
            Return("Content for node " \o frame.node_id \o " in "
                   \o frame.municipality_name \o ", " \o frame.state_abbr \o ":\n\n"
                   \o json_dumps(value))
      [] method = "search_munidocs" ->
            Return("Search results for '" \o frame.search_query \o "' in "
                   \o frame.municipality_name \o ", " \o frame.state_abbr \o ":\n\n"
                   \o json_dumps(value))

\* Mutant: only httpx.HTTPStatusError is caught.
ExceptException_StatusErrorsOnly(step) ==
    IF step.k = "raise" /\ step.exc.type = "HTTPStatusError"
    THEN Return("Error: " \o str(step.exc)) ELSE step

\* `except Exception as e`: the step that leaves the try block
ExceptException(step) ==
    IF step.k = "raise" THEN Return("Error: " \o str(step.exc)) ELSE step

\* the message logger.error writes for a step that raised
ErrorLog(name, step) ==
    IF step.k = "raise"
    THEN <<"Error in tool " \o name \o ": " \o str(step.exc)>>
    ELSE <<>>

TextContent(text) == [type |-> "text", text |-> text]

(***************************************************************************)
(* The callers: tool names and argument mappings a call may carry.         *)
(***************************************************************************)
CataloguedTools ==
    {"get_states_info", "list_municipalities", "get_municipality_info",
     "get_code_structure", "get_code_section", "search_municipal_codes",
     "get_municipality_url"}

\* Mutant: get_code_structure lists node_id as required, as get_code_section
\* does.
RequiredArguments_NodeIdInBoth(tool) ==
    CASE tool \in {"get_states_info", "list_municipalities"} -> {"state_abbr"}
      [] tool \in {"get_municipality_info", "get_municipality_url"} ->
            {"municipality_name", "state_abbr"}
      [] tool \in {"get_code_structure", "get_code_section"} ->
            {"municipality_name", "state_abbr", "node_id"}
      [] tool = "search_municipal_codes" ->
            {"municipality_name", "state_abbr", "search_query"}
      [] OTHER -> {}

\* the `required` list of each tool's input schema
RequiredArguments(tool) ==
    CASE tool \in {"get_states_info", "list_municipalities"} -> {"state_abbr"}
      [] tool \in {"get_municipality_info", "get_code_structure", "get_municipality_url"} ->
            {"municipality_name", "state_abbr"}
      [] tool = "get_code_section" -> {"municipality_name", "state_abbr", "node_id"}
      [] tool = "search_municipal_codes" ->
            {"municipality_name", "state_abbr", "search_query"}
      [] OTHER -> {}

\* names no branch of the dispatcher matches (the comparison is case-sensitive)
UnknownTools == {"get_weather", "GET_STATES_INFO"}

ToolNames == CataloguedTools \cup UnknownTools

\* the values a caller passes to a tool under each argument name
ArgumentValues(tool, key) ==
    CASE key = "municipality_name" -> {"Norfolk", "Example City, Town"}
      [] key = "state_abbr"        ->
            CASE tool = "get_municipality_url" -> {"VA", "TX", "tx"}
              [] tool \in {"get_code_structure", "get_code_section"} -> {"tx"}
              [] OTHER -> {"VA", "tx"}
      [] key = "node_id"           -> {"20001"}
      [] key = "search_query"      -> {"zoning"}
      [] key = "page_size"         -> {5}
      [] key = "page_number"       -> {2}
      [] key = "titles_only"       -> {TRUE}
      [] key = "is_advanced"       -> {TRUE}

\* the argument names a caller may send to a tool: the properties of its
\* input schema, and for the search tool a name the schema does not list
ArgumentNames(name) ==
    CASE name \in {"get_states_info", "list_municipalities"} -> <<"state_abbr">>
      [] name \in {"get_code_structure", "get_code_section"} ->
            <<"municipality_name", "state_abbr", "node_id">>
      [] name = "search_municipal_codes" ->
            <<"municipality_name", "state_abbr", "search_query", "page_size",
              "page_number", "titles_only", "is_advanced">>
      [] OTHER -> <<"municipality_name", "state_abbr">>

RECURSIVE Mappings(_, _)
\* every mapping that gives a value to some of the keys
Mappings(tool, keys) ==
    IF keys = <<>> THEN {<<>>}
    ELSE LET rest == Mappings(tool, Tail(keys))
         IN  rest \cup {(Head(keys) :> v) @@ m :
                           v \in ArgumentValues(tool, Head(keys)), m \in rest}

(***************************************************************************)
(* The remote service: the replies it may give to each request.  A body is *)
(* the compact JSON text of a value of the type the client method's        *)
(* annotation declares, or text that is no JSON at all.                    *)
(***************************************************************************)
RECURSIVE Compact(_), CompactItems(_), CompactMembers(_)
Compact(v) ==
    CASE v.t = "arr" -> "[" \o CompactItems(v.a) \o "]"
      [] v.t = "obj" -> "{" \o CompactMembers(v.items) \o "}"
      [] OTHER       -> Encode(v, 0, 0)

CompactItems(a) ==
    IF a = <<>> THEN ""
    ELSE Compact(Head(a)) \o (IF Len(a) = 1 THEN "" ELSE "," \o CompactItems(Tail(a)))

CompactMembers(items) ==
    IF items = <<>> THEN ""
    ELSE "\"" \o Head(items)[1] \o "\":" \o Compact(Head(items)[2])
         \o (IF Len(items) = 1 THEN "" ELSE "," \o CompactMembers(Tail(items)))

\* sequences over S of length at most n
SeqsUpTo(S, n) == UNION {[1..k -> S] : k \in 0..n}

StatePayloads ==
    { JObj(<< <<"StateID", JNum(47)>>, <<"StateName", JStr("Virginia")>>,
              <<"StateAbbreviation", JStr("VA")>> >>),
      JObj(<< <<"StateID", JNum(44)>>,
              <<"Regions", JArr(<<JStr("Gulf Coast"), None, JBool(TRUE), JArr(<<>>)>>)>>,
              <<"Meta", JObj(<< <<"Active", JBool(FALSE)>>, <<"Tags", JObj(<<>>)>> >>)>> >>),
      JObj(<<>>),
      JStr("Error: no such state"),
      None }

ClientRecords ==
    { JObj(<< <<"ClientID", JNum(1089)>>, <<"ClientName", JStr("Norfolk")>>,
              <<"PopRangeId", JNum(7)>>, <<"ClassificationId", JNum(2)>>,
              <<"Website", JStr("https://www.norfolk.gov")>>,
              <<"City", JStr("Norfolk")>>, <<"ZipCode", JStr("23510")>> >>),
      JObj(<< <<"ClientID", JNum(12)>>, <<"Website", None>> >>) }

MunicipalityPayloads == {JArr(a) : a \in SeqsUpTo(ClientRecords, MaxClients)}

\* a lookup record that carries the identifier id
ClientInfo(id) ==
    JObj(<< <<"ClientID", JNum(id)>>, <<"ClientName", JStr("Norfolk")>>,
            <<"State", JObj(<< <<"StateAbbreviation", JStr("VA")>> >>)>> >>)

\* lookup records without an identifier: no ClientID, a null one, a zero one
ClientInfoWithoutId ==
    { JObj(<<>>),
      JObj(<< <<"Message", JStr("No client by that name")>> >>),
      JObj(<< <<"ClientID", None>>, <<"ClientName", None>> >>),
      JObj(<< <<"ClientID", JNum(0)>>, <<"ClientName", JStr("")>> >>) }

LookupPayloads == {ClientInfo(id) : id \in 1..MaxClientId} \cup ClientInfoWithoutId

Products ==
    { JObj(<< <<"ProductName", JStr("Code of Ordinances")>>, <<"Id", JNum(11)>>,
              <<"ProductID", JNum(21)>> >>),
      JObj(<< <<"ProductName", JStr("ZONING CODE")>>, <<"Id", JNum(12)>> >>),
      JObj(<< <<"ProductName", JStr("Minutes")>>, <<"Id", JNum(13)>>,
              <<"ProductID", JNum(23)>> >>),
      JObj(<< <<"Id", JNum(14)>>, <<"ProductID", JNum(24)>> >>) }

ProductPayloads == {JArr(a) : a \in SeqsUpTo(Products, MaxProducts)}

TocPayloads ==
    { JArr(<<>>),
      JArr(<< JObj(<< <<"Id", JStr("PTIICO")>>, <<"Heading", JStr("PART II - CODE")>>,
                      <<"HasChildren", JBool(TRUE)>> >>) >>) }

ContentPayloads ==
    { JObj(<< <<"Docs", JArr(<< JObj(<< <<"Id", JStr("20001")>>,
                                        <<"Content", JStr("Sec. 1. - Title.")>> >>) >>)>> >>),
      JObj(<< <<"Docs", JArr(<<>>)>> >>) }

SearchPayloads ==
    { JObj(<< <<"NumberOfHits", JNum(0)>>, <<"Hits", JArr(<<>>)>> >>),
      JObj(<< <<"NumberOfHits", JNum(1)>>,
              <<"Hits", JArr(<< JObj(<< <<"Title", JStr("Zoning districts")>> >>) >>)>> >>) }

Payloads(method) ==
    CASE method = "get_states"           -> StatePayloads
      [] method = "get_clients_by_state" -> MunicipalityPayloads
      [] method = "get_client_by_name"   -> LookupPayloads
      [] method = "get_client_content"   -> ProductPayloads
      [] method = "get_toc_children"     -> TocPayloads
      [] method = "get_codes_content"    -> ContentPayloads
      [] method = "search_munidocs"      -> SearchPayloads

\* replies that make the client method raise
FailedReplies ==
    { TransportError("ConnectError", "All connection attempts failed"),
      TransportError("ReadTimeout", ""),
      Response(500, "Internal Server Error"),
      Response(404, "{\"Message\":\"Not Found\"}"),
      Response(200, "<html>Service unavailable</html>") }

Replies(method) == FailedReplies \cup {Response(200, Compact(v)) : v \in Payloads(method)}

(***************************************************************************)
(* State.  Each variable is a function of the invocation.                  *)
(***************************************************************************)
Invocations == {1, 2}
\* the invocations served one after the other
Sequential == {1}

VARIABLES
    pc,         \* "idle", "awaiting" (suspended in an await) or "done"
    name,       \* the tool name of the call
    arguments,  \* the argument mapping of the call
    frame,      \* the handler's local variables kept across an await
    sent,       \* the requests the invocation issued, in order
    received,   \* the replies to them, in order
    outcome,    \* how the handler ended: the list returned, or the exception raised
    log,        \* what the handler wrote to the error log
    phase,      \* where the process is: "import", "serving", "finally" or "exit"
    municode_client,  \* the module-level MunicodeClient and its connection pool
    cause       \* how asyncio.run(main()) ended, "" while it has not

vars == <<pc, name, arguments, frame, sent, received, outcome, log,
          phase, municode_client, cause>>

\* the variables of the process outside the invocations
process == <<phase, municode_client, cause>>

\* no MunicodeClient yet; MunicodeClient(): one httpx.AsyncClient, open
NoClient == [instances |-> 0, is_closed |-> FALSE, closes |-> 0]
MunicodeClient == [instances |-> 1, is_closed |-> FALSE, closes |-> 0]

Pending == [kind |-> "pending", value |-> <<>>, exc |-> NoException]
Result(value) == [kind |-> "return", value |-> value, exc |-> NoException]
Escaped(e) == [kind |-> "raise", value |-> <<>>, exc |-> e]

Init ==
    /\ pc = [i \in Invocations |-> "idle"]
    /\ name = [i \in Invocations |-> ""]
    /\ arguments = [i \in Invocations |-> <<>>]
    /\ frame = [i \in Invocations |-> <<>>]
    /\ sent = [i \in Invocations |-> <<>>]
    /\ received = [i \in Invocations |-> <<>>]
    /\ outcome = [i \in Invocations |-> Pending]
    /\ log = [i \in Invocations |-> <<>>]
    /\ phase = "serving"
    /\ municode_client = MunicodeClient
    /\ cause = ""

\* The handler of invocation i, called `tool`, leaves the try block with
\* `step`: it suspends in an await, returns, or its exception is handled.
Advance(i, tool, step) ==
    LET handled == ExceptException(step)
    IN  /\ pc' = [pc EXCEPT ![i] = IF handled.k = "await" THEN "awaiting" ELSE "done"]
        /\ frame' = [frame EXCEPT ![i] = handled.frame]
        /\ sent' = [sent EXCEPT ![i] = IF handled.k = "await"
                                       THEN Append(@, handled.req) ELSE @]
        /\ outcome' = [outcome EXCEPT ![i] =
                          CASE handled.k = "await"  -> Pending
                            [] handled.k = "return" -> Result(<<TextContent(handled.text)>>)
                            [] handled.k = "raise"  -> Escaped(handled.exc)]
        /\ log' = [log EXCEPT ![i] = @ \o ErrorLog(tool, step)]

\* The runtime, while the server loop runs, calls handle_call_tool(tool, args)
\* for invocation i.
Call(i, tool, args) ==
    /\ phase = "serving"
    /\ pc[i] = "idle"
    /\ name' = [name EXCEPT ![i] = tool]
    /\ arguments' = [arguments EXCEPT ![i] = args]
    /\ Advance(i, tool, Entry(tool, args))
    /\ UNCHANGED <<received, process>>

\* The runtime calls handle_call_tool(name, arguments).
CallTool(i) ==
    \E tool \in ToolNames :
        \E args \in Mappings(tool, ArgumentNames(tool)) : Call(i, tool, args)

\* Mutant: the handler keeps its local variables at module level, where a
\* concurrent call of the same tool at the same await overwrites them.
Locals_AtModuleLevel(i) ==
    LET Same(j) == /\ j # i
                   /\ pc[j] = "awaiting"
                   /\ name[j] = name[i]
                   /\ Len(sent[j]) = Len(sent[i])
    IN  IF \E j \in Invocations : Same(j)
        THEN frame[CHOOSE j \in Invocations : Same(j)]
        ELSE frame[i]

\* the local variables of the coroutine of invocation i
Locals(i) == frame[i]

\* The reply `reply` to the request invocation i awaits arrives: the client
\* method raises or returns, and the handler runs on.
Resumed(i, reply) ==
    /\ phase = "serving"
    /\ pc[i] = "awaiting"
    /\ LET req == sent[i][Len(sent[i])]
           r == ClientResult(req, reply)
       IN  /\ received' = [received EXCEPT ![i] = Append(@, reply)]
           /\ Advance(i, name[i],
                      IF r.raised THEN Raise(r.exc)
                      ELSE Resume(name[i], Locals(i), req.method, r.value))
    /\ UNCHANGED <<name, arguments, process>>

\* The reply to the request the handler awaits arrives: the client method
\* raises or returns, and the handler runs on.
Reply(i) ==
    /\ pc[i] = "awaiting"
    /\ \E reply \in Replies(sent[i][Len(sent[i])].method) : Resumed(i, reply)

\* The runtime hands the outcome to the caller; the slot is free again.
Deliver(i) ==
    /\ phase = "serving"
    /\ pc[i] = "done"
    /\ pc' = [pc EXCEPT ![i] = "idle"]
    /\ name' = [name EXCEPT ![i] = ""]
    /\ arguments' = [arguments EXCEPT ![i] = <<>>]
    /\ frame' = [frame EXCEPT ![i] = <<>>]
    /\ sent' = [sent EXCEPT ![i] = <<>>]
    /\ received' = [received EXCEPT ![i] = <<>>]
    /\ outcome' = [outcome EXCEPT ![i] = Pending]
    /\ log' = [log EXCEPT ![i] = <<>>]
    /\ UNCHANGED process

Next ==
    \E i \in Sequential :
        \/ CallTool(i)
        \/ Reply(i)
        \/ Deliver(i)

Spec == Init /\ [][Next]_vars

(***************************************************************************)
(* The whole process: the module is imported (the MunicodeClient is built), *)
(* asyncio.run(main()) serves calls that overlap on the one event loop,    *)
(* main ends, and the finally clause closes the client.                    *)
(***************************************************************************)
\* the calls that overlap
ConcurrentCalls ==
    { <<"get_states_info", [state_abbr |-> "va"]>>,
      <<"search_municipal_codes",
        [municipality_name |-> "Norfolk", state_abbr |-> "VA",
         search_query |-> "zoning"]>>,
      <<"search_municipal_codes",
        [municipality_name |-> "Example City, Town", state_abbr |-> "tx",
         search_query |-> "zoning", page_size |-> 5]>>,
      <<"get_code_section",
        [municipality_name |-> "Norfolk", state_abbr |-> "VA", node_id |-> "20001"]>> }

\* the replies the remote service gives to them
ConcurrentPayloads(method) ==
    CASE method = "get_states"         -> {JObj(<< <<"StateID", JNum(47)>> >>)}
      [] method = "get_client_by_name" ->
            {ClientInfo(id) : id \in 1..MaxClientId} \cup {JObj(<<>>)}
      [] method = "get_client_content" ->
            {JArr(<< JObj(<< <<"ProductName", JStr("Code of Ordinances")>>,
                             <<"Id", JNum(11)>>, <<"ProductID", JNum(21)>> >>) >>)}
      [] method = "get_codes_content"  -> {JObj(<< <<"Docs", JArr(<<>>)>> >>)}
      [] method = "search_munidocs"    -> {JObj(<< <<"NumberOfHits", JNum(0)>> >>)}
      [] OTHER -> {}

ConcurrentReplies(method) ==
    {Response(500, "Internal Server Error")}
        \cup {Response(200, Compact(v)) : v \in ConcurrentPayloads(method)}

\* how asyncio.run(main()) ends: main returns (the server loop ended), the
\* process is interrupted, or main raises another exception
Causes == {"return", "KeyboardInterrupt", "Exception"}

InitProcess ==
    /\ pc = [i \in Invocations |-> "idle"]
    /\ name = [i \in Invocations |-> ""]
    /\ arguments = [i \in Invocations |-> <<>>]
    /\ frame = [i \in Invocations |-> <<>>]
    /\ sent = [i \in Invocations |-> <<>>]
    /\ received = [i \in Invocations |-> <<>>]
    /\ outcome = [i \in Invocations |-> Pending]
    /\ log = [i \in Invocations |-> <<>>]
    /\ phase = "import"
    /\ municode_client = NoClient
    /\ cause = ""

invocation == <<pc, name, arguments, frame, sent, received, outcome, log>>

\* The module is executed down to `municode_client = MunicodeClient()`; the
\* __main__ block then starts asyncio.run(main()).
Import ==
    /\ phase = "import"
    /\ phase' = "serving"
    /\ municode_client' = [municode_client EXCEPT !.instances = @ + 1]
    /\ UNCHANGED <<invocation, cause>>

\* An import at the top of the module fails: the process ends before the
\* client is built.
ImportFails ==
    /\ phase = "import"
    /\ phase' = "exit"
    /\ cause' = "ImportError"
    /\ UNCHANGED <<invocation, municode_client>>

\* The runtime calls the handler while other calls may be in flight.
CallConcurrently(i) ==
    \E call \in ConcurrentCalls : Call(i, call[1], call[2])

\* The reply to the request invocation i awaits arrives.
ReplyConcurrently(i) ==
    /\ pc[i] = "awaiting"
    /\ \E reply \in ConcurrentReplies(sent[i][Len(sent[i])].method) : Resumed(i, reply)

\* Mutant: the client is closed only where KeyboardInterrupt is handled.
AfterMain_ClosedOnInterruptOnly(how) ==
    IF how = "KeyboardInterrupt" THEN "finally" ELSE "exit"

\* where the __main__ block goes when asyncio.run(main()) ended: the finally
\* clause runs whatever the way out of the try block
AfterMain(how) == "finally"

\* asyncio.run(main()) ends: the event loop is closed, the handlers still in
\* flight are cancelled and run no further.
main(how) ==
    /\ phase = "serving"
    /\ phase' = AfterMain(how)
    /\ cause' = how
    /\ pc' = [i \in Invocations |-> IF pc[i] = "awaiting" THEN "cancelled" ELSE pc[i]]
    /\ UNCHANGED <<name, arguments, frame, sent, received, outcome, log, municode_client>>

\* finally: asyncio.run(municode_client.close()) closes the connection pool.
close ==
    /\ phase = "finally"
    /\ phase' = "exit"
    /\ municode_client' = [municode_client EXCEPT !.is_closed = TRUE, !.closes = @ + 1]
    /\ UNCHANGED <<invocation, cause>>

NextProcess ==
    \/ Import
    \/ ImportFails
    \/ \E i \in Invocations : CallConcurrently(i)
    \/ \E i \in Invocations : ReplyConcurrently(i)
    \/ \E i \in Invocations : Deliver(i)
    \/ \E how \in Causes : main(how)
    \/ close

SpecProcess == InitProcess /\ [][NextProcess]_vars

\* The finally clause follows the try block at once: once main has ended,
\* the close is not put off for ever.
SpecShutdown == SpecProcess /\ WF_vars(close)

(***************************************************************************)
(* Properties.  What follows is read off the state alone: the requests an  *)
(* invocation issued, the replies it got and how it ended.                 *)
(***************************************************************************)
Last(seq) == seq[Len(seq)]
Ended(i) == pc[i] = "done"

\* the handler returned a list of exactly one text block
OneTextBlock(i) ==
    /\ outcome[i].kind = "return"
    /\ Len(outcome[i].value) = 1
    /\ outcome[i].value[1].type = "text"

Text(i) == outcome[i].value[1].text

\* a reply that fails: a transport failure or a status outside 2xx
Failed(reply) == reply.kind = "transport" \/ reply.status < 200 \/ reply.status > 299
\* a 2xx reply whose body is JSON, and the value it carries
Succeeded(reply) == ~Failed(reply) /\ json_loads(reply.body).ok
Payload(reply) == json_loads(reply.body).v

\* the k-th request of invocation i has been answered with a JSON payload
Answered(i, k) == k >= 1 /\ k <= Len(received[i]) /\ Succeeded(received[i][k])

\* a required argument of a catalogued tool is absent
MissingRequired(i) ==
    /\ name[i] \in CataloguedTools
    /\ RequiredArguments(name[i]) \ DOMAIN arguments[i] # {}

\* the last step of the chain failed, or its body could not be decoded
LastStepFailed(i) == received[i] # <<>> /\ ~Succeeded(Last(received[i]))

\* the text carries the description of the failure of the last step
DescribesFailure(i) ==
    LET reply == Last(received[i])
    IN  CASE reply.kind = "transport" -> Text(i) = "Error: " \o reply.msg
          [] Failed(reply) ->
                /\ startswith(Text(i), "Error: ")
                /\ Contains("'" \o ToString(reply.status) \o "' for url '"
                            \o Last(sent[i]).url \o "'", Text(i))
          [] OTHER ->
                /\ startswith(Text(i), "Error: ")
                /\ Contains("Expecting value", Text(i))

\* no payload of an earlier, successful step shows in the text
NoPartialResult(i) ==
    \A k \in 1..(Len(received[i]) - 1) :
        /\ ~Contains(received[i][k].body, Text(i))
        /\ ~Contains(json_dumps(Payload(received[i][k])), Text(i))

\* C1: whenever a step of a tool's chain of remote calls fails (transport
\* failure, status outside 2xx, undecodable body) or a required argument is
\* missing, the call returns exactly one text block that is "Error: " followed
\* by the exception's description, with no payload of an earlier step in it;
\* and no call ever ends with an exception escaping the handler.
C1_FailuresBecomeErrorText ==
    \A i \in Invocations :
        Ended(i) =>
            /\ OneTextBlock(i)
            /\ MissingRequired(i) =>
                  /\ sent[i] = <<>>
                  /\ \E k \in RequiredArguments(name[i]) \ DOMAIN arguments[i] :
                        Text(i) = "Error: '" \o k \o "'"
            /\ LastStepFailed(i) =>
                  /\ startswith(Text(i), "Error:")
                  /\ DescribesFailure(i)
                  /\ NoPartialResult(i)
                  /\ Len(sent[i]) = Len(received[i])

\* C1 witness: the third call of a chain fails after two successful ones and
\* the call ends with an error text.
C1_Witness ==
    \E i \in Invocations :
        /\ Ended(i)
        /\ Len(received[i]) = 3
        /\ Answered(i, 1) /\ Answered(i, 2)
        /\ Failed(received[i][3])
        /\ startswith(Text(i), "Error:")

\* the identifier a lookup record carries: a number from 1 on
Identifier(client_info) == dict_get(client_info, "ClientID", None)
HasIdentifier(client_info) ==
    Identifier(client_info).t = "num" /\ Identifier(client_info).n >= 1

\* invocation i looked the municipality up and the reply carries no identifier
LookupMissed(i) ==
    /\ sent[i] # <<>>
    /\ sent[i][1].method = "get_client_by_name"
    /\ Answered(i, 1)
    /\ ~HasIdentifier(Payload(received[i][1]))

LookupTools ==
    {"get_municipality_info", "get_code_structure", "get_code_section",
     "search_municipal_codes"}

\* C2 as claimed: after a lookup without identifier each of the four lookup
\* tools returns a text that contains the municipality name and the state,
\* and issues no further request.
C2_AsClaimed ==
    \A i \in Invocations :
        (LookupMissed(i) /\ name[i] \in LookupTools) =>
            /\ Ended(i)
            /\ Len(sent[i]) = 1
            /\ OneTextBlock(i)
            /\ Contains(arguments[i]["municipality_name"], Text(i))
            /\ Contains(upper(arguments[i]["state_abbr"]), upper(Text(i)))

\* C2 amended: after a lookup without identifier (ClientID absent, null or
\* 0) get_code_structure, get_code_section and search_municipal_codes return
\* "Municipality '<name>' not found in <STATE>" with the state upper-cased,
\* get_municipality_info returns the lookup record alone as JSON under
\* "client_info", and none of the four issues a further request.
C2_NotFoundAfterLookupMiss ==
    \A i \in Invocations :
        (LookupMissed(i) /\ name[i] \in LookupTools) =>
            /\ Ended(i)
            /\ Len(sent[i]) = 1
            /\ OneTextBlock(i)
            /\ IF name[i] = "get_municipality_info"
               THEN json_loads(Text(i)) =
                        [ok |-> TRUE,
                         v |-> JObj(<< <<"client_info", Payload(received[i][1])>> >>)]
               ELSE Text(i) = "Municipality '" \o arguments[i]["municipality_name"]
                              \o "' not found in " \o upper(arguments[i]["state_abbr"])

\* C2 witness: a search for a municipality given with a lower-case state ends
\* after a lookup that carried no identifier.
C2_Witness ==
    \E i \in Invocations :
        /\ LookupMissed(i)
        /\ Ended(i)
        /\ name[i] = "search_municipal_codes"
        /\ arguments[i]["state_abbr"] = "tx"
        /\ Identifier(Payload(received[i][1])) = JNum(0)

Downstream ==
    {"get_client_content", "get_toc_children", "get_codes_content", "search_munidocs"}

CodeMatches(products) ==
    {k \in 1..Len(products) :
        Contains("CODE", upper(dict_get(products[k], "ProductName", JStr("")).s))}

Min(S) == CHOOSE m \in S : \A n \in S : m <= n

\* C4: a TOC or content request is made with the Id (as job id) and the
\* ProductID (as product id) of the lowest-indexed product whose name contains
\* "code" in any case, however many products match and wherever they stand.
C4_FirstMatchingProduct ==
    \A i \in Invocations :
        \A k \in 1..Len(sent[i]) :
            sent[i][k].method \in {"get_toc_children", "get_codes_content"} =>
                LET products == Payload(received[i][k - 1]).a
                    matches == CodeMatches(products)
                IN  /\ matches # {}
                    /\ sent[i][k].params.jobId = dict_get(products[Min(matches)], "Id", None)
                    /\ sent[i][k].params.productId =
                           dict_get(products[Min(matches)], "ProductID", None)

\* C4 witness: two products match, with different ids, and the request
\* carries the ids of the first.
C4_Witness ==
    \E i \in Invocations :
        /\ Len(sent[i]) = 3
        /\ LET products == Payload(received[i][2]).a
           IN  /\ Cardinality(CodeMatches(products)) >= 2
               /\ products[1] # products[2]
               /\ sent[i][3].params.jobId = dict_get(products[1], "Id", None)
               /\ sent[i][3].params.jobId # dict_get(products[2], "Id", None)

\* C5: get_municipality_info, after a lookup with an identifier, fetches the
\* products of that identifier exactly once and (when the fetch succeeds)
\* returns one object holding the lookup record and the products; after a
\* lookup without identifier it fetches nothing and returns an object holding
\* the lookup record alone.
C5_MunicipalityInfo ==
    \A i \in Invocations :
        (name[i] = "get_municipality_info" /\ Answered(i, 1)) =>
            LET client_info == Payload(received[i][1])
            IN  IF HasIdentifier(client_info)
                THEN /\ Len(sent[i]) = 2
                     /\ sent[i][2] = [method |-> "get_client_content",
                                      url |-> "https://api.municode.com/ClientContent/"
                                              \o ToString(Identifier(client_info).n),
                                      params |-> <<>>]
                     /\ (Ended(i) /\ Answered(i, 2)) =>
                            /\ OneTextBlock(i)
                            /\ json_loads(Text(i)) =
                                 [ok |-> TRUE,
                                  v |-> JObj(<< <<"client_info", client_info>>,
                                                <<"available_products",
                                                  Payload(received[i][2])>> >>)]
                ELSE /\ Len(sent[i]) = 1
                     /\ Ended(i)
                     /\ OneTextBlock(i)
                     /\ json_loads(Text(i)) =
                          [ok |-> TRUE, v |-> JObj(<< <<"client_info", client_info>> >>)]

\* C5 witness: the call ended with the lookup record and a non-empty product
\* sequence in its result.
C5_Witness ==
    \E i \in Invocations :
        /\ name[i] = "get_municipality_info"
        /\ Ended(i)
        /\ Answered(i, 1) /\ Answered(i, 2)
        /\ Payload(received[i][2]).a # <<>>
        /\ ~startswith(Text(i), "Error:")

C7_UnknownTool ==
    \A i \in Invocations :
        (pc[i] # "idle" /\ name[i] \notin CataloguedTools) =>
            /\ Ended(i)
            /\ sent[i] = <<>>
            /\ OneTextBlock(i)
            /\ Text(i) = "Unknown tool: " \o name[i]
            /\ ~startswith(Text(i), "Error:")

\* C7 witness: a catalogued name in the wrong case, called with arguments.
C7_Witness ==
    \E i \in Invocations :
        /\ Ended(i)
        /\ name[i] = "GET_STATES_INFO"
        /\ DOMAIN arguments[i] = {"municipality_name", "state_abbr"}
        /\ Text(i) = "Unknown tool: GET_STATES_INFO"

RECURSIVE Slug(_)
\* the name, character by character: commas dropped, spaces to underscores,
\* everything else in lower case
Slug(s) ==
    IF s = "" THEN ""
    ELSE (CASE Head(s) = "," -> ""
            [] Head(s) = " " -> "_"
            [] OTHER         -> LowerChar(Head(s)))
         \o Slug(Tail(s))

\* C8: get_municipality_url issues no request and its text ends with the url
\* made of the library base, the lower-cased state code, the slug of the name
\* and codes/code_of_ordinances; ("Norfolk", "VA") and ("Example City, Town",
\* "TX") give the urls of the specification.
C8_MunicipalityUrl ==
    \A i \in Invocations :
        (/\ pc[i] # "idle"
         /\ name[i] = "get_municipality_url"
         /\ {"municipality_name", "state_abbr"} \subseteq DOMAIN arguments[i]) =>
            LET municipality == arguments[i]["municipality_name"]
                state == arguments[i]["state_abbr"]
                url == "https://library.municode.com/" \o lower(state) \o "/"
                       \o Slug(municipality) \o "/codes/code_of_ordinances"
            IN  /\ Ended(i)
                /\ sent[i] = <<>>
                /\ OneTextBlock(i)
                /\ Text(i) = "Municode Library URL for " \o municipality \o ", "
                             \o upper(state) \o ":\n" \o url
                /\ (municipality = "Norfolk" /\ state = "VA") =>
                      url = "https://library.municode.com/va/norfolk/codes/code_of_ordinances"
                /\ (municipality = "Example City, Town" /\ state = "TX") =>
                      url = "https://library.municode.com/tx/example_city_town/codes/code_of_ordinances"

\* C8 witness: the url of ("Example City, Town", "TX") has been returned.
C8_Witness ==
    \E i \in Invocations :
        /\ Ended(i)
        /\ name[i] = "get_municipality_url"
        /\ arguments[i] = [municipality_name |-> "Example City, Town", state_abbr |-> "TX"]
        /\ Contains("/tx/example_city_town/codes/code_of_ordinances", Text(i))

\* the value the caller gave under key, or the default when it gave none
Given(i, key, default) ==
    IF key \in DOMAIN arguments[i] THEN arguments[i][key] ELSE default

\* C9: every search request carries the caller's search text, page size, page
\* number and titles_only (10, 1 and false when omitted) and the constants
\* isAdvanced=false, isAutocomplete=false, mode="standard", sort=0,
\* fragmentSize=200, contentTypeId="" and stateId=0, whatever the caller sent.
C9_SearchParameters ==
    \A i \in Invocations :
        \A k \in 1..Len(sent[i]) :
            sent[i][k].method = "search_munidocs" =>
                LET params == sent[i][k].params
                IN  /\ sent[i][k].url = "https://api.municode.com/search"
                    /\ DOMAIN params =
                          {"clientId", "searchText", "pageNum", "pageSize", "titlesOnly",
                           "isAdvanced", "isAutocomplete", "mode", "sort", "fragmentSize",
                           "contentTypeId", "stateId"}
                    /\ params.searchText = arguments[i]["search_query"]
                    /\ params.pageSize = Given(i, "page_size", 10)
                    /\ params.pageNum = Given(i, "page_number", 1)
                    /\ params.titlesOnly = Given(i, "titles_only", FALSE)
                    /\ params.isAdvanced = FALSE
                    /\ params.isAutocomplete = FALSE
                    /\ params.mode = "standard"
                    /\ params.sort = 0
                    /\ params.fragmentSize = 200
                    /\ params.contentTypeId = ""
                    /\ params.stateId = 0

\* C9 witness: a search sent with titles_only=true and an is_advanced argument
\* went out with titlesOnly=true and isAdvanced=false, the page size given and
\* the default page number.
C9_Witness ==
    \E i \in Invocations :
        /\ Len(sent[i]) = 2
        /\ sent[i][2].method = "search_munidocs"
        /\ DOMAIN arguments[i] = {"municipality_name", "state_abbr", "search_query",
                                  "page_size", "titles_only", "is_advanced"}
        /\ arguments[i]["is_advanced"] = TRUE
        /\ sent[i][2].params.titlesOnly = TRUE
        /\ sent[i][2].params.isAdvanced = FALSE
        /\ sent[i][2].params.pageSize = 5
        /\ sent[i][2].params.pageNum = 1

\* C10: get_states_info called with a state code issues exactly one request,
\* for the upper-cased code, and when that request is answered the text it
\* returns decodes to exactly the JSON value the reply carried.
C10_StatesPassThrough ==
    \A i \in Invocations :
        (/\ pc[i] # "idle"
         /\ name[i] = "get_states_info"
         /\ "state_abbr" \in DOMAIN arguments[i]) =>
            /\ Len(sent[i]) = 1
            /\ sent[i][1] = [method |-> "get_states",
                             url |-> "https://api.municode.com/States/abbr",
                             params |-> [stateAbbr |-> upper(arguments[i]["state_abbr"])]]
            /\ (Ended(i) <=> Len(received[i]) = 1)
            /\ Answered(i, 1) =>
                  /\ OneTextBlock(i)
                  /\ json_loads(Text(i)) = [ok |-> TRUE, v |-> Payload(received[i][1])]

\* C10 witness: a nested payload came back through the tool.
C10_Witness ==
    \E i \in Invocations :
        /\ Ended(i)
        /\ name[i] = "get_states_info"
        /\ arguments[i] = [state_abbr |-> "tx"]
        /\ Answered(i, 1)
        /\ Payload(received[i][1]).t = "obj"
        /\ dict_get(Payload(received[i][1]), "StateID", None) = JNum(44)
        /\ startswith(Text(i), "{\n  \"StateID\": 44,\n  \"Regions\": [\n    \"Gulf Coast\",\n    null,")

\* the arguments of invocation i that its tool's schema requires and the
\* mapping lacks
Missing(i) == RequiredArguments(name[i]) \ DOMAIN arguments[i]

\* C11: a call of a catalogued tool whose argument mapping lacks an argument
\* the tool's schema lists as required (node_id of get_code_section among
\* them) has ended, as soon as it was dispatched, with one text block
\* "Error: '<argument>'" naming a missing argument, has written that
\* description to the error log, and has issued no remote request at all.
C11_MissingRequiredArgument ==
    \A i \in Invocations :
        (pc[i] # "idle" /\ MissingRequired(i)) =>
            /\ Ended(i)
            /\ sent[i] = <<>>
            /\ received[i] = <<>>
            /\ OneTextBlock(i)
            /\ startswith(Text(i), "Error:")
            /\ \E k \in Missing(i) :
                  /\ Text(i) = "Error: '" \o k \o "'"
                  /\ log[i] = <<"Error in tool " \o name[i] \o ": '" \o k \o "'">>

\* C11 witness: get_code_section called with a municipality and a state but
\* no node_id ended with the error text and no request.
C11_Witness ==
    \E i \in Invocations :
        /\ Ended(i)
        /\ name[i] = "get_code_section"
        /\ DOMAIN arguments[i] = {"municipality_name", "state_abbr"}
        /\ sent[i] = <<>>
        /\ OneTextBlock(i)
        /\ Text(i) = "Error: 'node_id'"

\* the most requests a call of the tool issues
MostRequests(tool) ==
    CASE tool \in {"get_states_info", "list_municipalities"} -> 1
      [] tool \in {"get_municipality_info", "search_municipal_codes"} -> 2
      [] tool \in {"get_code_structure", "get_code_section"} -> 3
      [] OTHER -> 0

\* no request of invocation i is issued twice, and a request was followed by
\* another one only after it was answered with a decodable 2xx reply
NoRetries(i) ==
    /\ \A k, l \in 1..Len(sent[i]) : k # l => sent[i][k] # sent[i][l]
    /\ \A k, l \in 1..Len(sent[i]) : k # l => sent[i][k].method # sent[i][l].method
    /\ \A k \in 1..(Len(sent[i]) - 1) : Answered(i, k)
    /\ Len(received[i]) <= Len(sent[i])
    /\ Len(sent[i]) <= Len(received[i]) + 1
    /\ Ended(i) => Len(sent[i]) = Len(received[i])

\* C12 as claimed: an invocation issues at most two requests, two being the
\* client lookup followed by the product lookup, and never issues one again.
C12_AsClaimed ==
    \A i \in Invocations :
        /\ Len(sent[i]) <= 2
        /\ Len(sent[i]) = 2 =>
              /\ sent[i][1].method = "get_client_by_name"
              /\ sent[i][2].method = "get_client_content"
        /\ NoRetries(i)

\* C12 amended: an invocation issues at most three requests: none for
\* get_municipality_url, an unknown tool or a missing required argument, one
\* for get_states_info and list_municipalities, at most two for
\* get_municipality_info (lookup, products) and search_municipal_codes
\* (lookup, search), at most three for get_code_structure and
\* get_code_section (lookup, products, then TOC or content); no request is
\* issued twice, and after a request that failed no other request follows.
C12_BoundedRequestsNoRetries ==
    \A i \in Invocations :
        /\ Len(sent[i]) <= MostRequests(name[i])
        /\ Len(sent[i]) <= 3
        /\ MissingRequired(i) => sent[i] = <<>>
        /\ (Ended(i) /\ ~MissingRequired(i) /\ MostRequests(name[i]) >= 1) =>
              Len(sent[i]) >= 1
        /\ NoRetries(i)
        /\ (received[i] # <<>> /\ ~Succeeded(Last(received[i]))) =>
              Ended(i) /\ Len(sent[i]) = Len(received[i])

\* C12 witness: a call of get_code_section that ended after three requests,
\* the third of which failed and was not issued again.
C12_Witness ==
    \E i \in Invocations :
        /\ Ended(i)
        /\ name[i] = "get_code_section"
        /\ Len(sent[i]) = 3
        /\ Len(received[i]) = 3
        /\ Failed(received[i][3])
        /\ sent[i][3].method = "get_codes_content"

\* the client methods a call of the tool awaits, in the order of its branch
Chain(tool) ==
    CASE tool = "get_states_info" -> <<"get_states">>
      [] tool = "list_municipalities" -> <<"get_clients_by_state">>
      [] tool = "get_municipality_info" -> <<"get_client_by_name", "get_client_content">>
      [] tool = "get_code_structure" ->
            <<"get_client_by_name", "get_client_content", "get_toc_children">>
      [] tool = "get_code_section" ->
            <<"get_client_by_name", "get_client_content", "get_codes_content">>
      [] tool = "search_municipal_codes" -> <<"get_client_by_name", "search_munidocs">>
      [] OTHER -> <<>>

\* the requests of invocation i that have not been answered yet
Outstanding(i) == Len(sent[i]) - Len(received[i])

\* C13: within one invocation at most one request is outstanding at any
\* time, and one is outstanding exactly while the handler is suspended in an
\* await; the requests issued so far are, in order, the first calls of the
\* tool's chain (lookup, products, TOC or content; lookup, search); and every
\* request but the first was issued after the one before it had been
\* answered with a decodable 2xx reply.
C13_SequentialChain ==
    \A i \in Invocations :
        /\ Outstanding(i) \in {0, 1}
        /\ Outstanding(i) = 1 <=> pc[i] = "awaiting"
        /\ Len(sent[i]) <= Len(Chain(name[i]))
        /\ \A k \in 1..Len(sent[i]) : sent[i][k].method = Chain(name[i])[k]
        /\ \A k \in 2..Len(sent[i]) :
              /\ Len(received[i]) >= k - 1
              /\ Answered(i, k - 1)

\* C13 witness: get_code_structure is suspended in its third await, the TOC
\* request, with the lookup and the product fetch answered.
C13_Witness ==
    \E i \in Invocations :
        /\ name[i] = "get_code_structure"
        /\ pc[i] = "awaiting"
        /\ Len(sent[i]) = 3
        /\ Len(received[i]) = 2
        /\ Answered(i, 1) /\ Answered(i, 2)
        /\ sent[i][3].method = "get_toc_children"

RECURSIVE Alone(_, _, _)
\* the handler of `tool` called with `args` and run alone on `replies`: the
\* step it stands at, the requests it issued and what it logged
Alone(tool, args, replies) ==
    IF replies = <<>>
    THEN LET step == Entry(tool, args)
         IN  [step |-> ExceptException(step),
              sent |-> IF step.k = "await" THEN <<step.req>> ELSE <<>>,
              log  |-> ErrorLog(tool, step)]
    ELSE LET before == Alone(tool, args, SubSeq(replies, 1, Len(replies) - 1))
         IN  IF before.step.k # "await" THEN before
             ELSE LET r == ClientResult(before.step.req, Last(replies))
                      step == IF r.raised THEN Raise(r.exc)
                              ELSE Resume(tool, before.step.frame,
                                          before.step.req.method, r.value)
                  IN  [step |-> ExceptException(step),
                       sent |-> IF step.k = "await"
                                THEN Append(before.sent, step.req) ELSE before.sent,
                       log  |-> before.log \o ErrorLog(tool, step)]

\* invocation i is where its handler, run alone on the replies to its own
\* requests, would be
AsIfAlone(i) ==
    LET alone == Alone(name[i], arguments[i], received[i])
    IN  /\ sent[i] = alone.sent
        /\ frame[i] = alone.step.frame
        /\ log[i] = alone.log
        /\ pc[i] \in {"awaiting", "cancelled"} <=> alone.step.k = "await"
        /\ pc[i] = "done" <=> alone.step.k = "return"
        /\ pc[i] = "done" => outcome[i] = Result(<<TextContent(alone.step.text)>>)
        /\ pc[i] # "done" => outcome[i] = Pending

\* C14: with several invocations in flight at once over the shared client,
\* under every interleaving of their requests and replies, the requests an
\* invocation issued, its local variables, its log lines and its result are
\* those its handler produces when run alone on its own tool name, its own
\* arguments and the replies to its own requests: nothing of another
\* invocation enters them.
C14_InvocationsIndependent ==
    \A i \in Invocations : pc[i] # "idle" => AsIfAlone(i)

\* C14 witness: two calls of different tools are suspended at the same time,
\* each having already received a reply while the other was in flight, and
\* the first was called with other arguments than the second.
C14_Witness ==
    /\ pc[1] = "awaiting" /\ pc[2] = "awaiting"
    /\ name[1] = "search_municipal_codes" /\ name[2] = "get_code_section"
    /\ arguments[1] # arguments[2]
    /\ Len(received[1]) = 1 /\ Len(received[2]) = 2
    /\ AsIfAlone(1) /\ AsIfAlone(2)

\* the pool has been released: close() has run
Released == municode_client.is_closed

\* what holds of the client in every state of the process
OnePoolReleasedOnce ==
    /\ municode_client.instances <= 1
    /\ municode_client.closes <= municode_client.instances
    /\ Released <=> municode_client.closes = 1
    /\ phase = "import" => municode_client = NoClient
    /\ phase \in {"serving", "finally"} => municode_client = MunicodeClient
    /\ \A i \in Invocations : pc[i] # "idle" => municode_client.instances = 1
    /\ (phase = "exit" /\ cause \in Causes) =>
          /\ municode_client.instances = 1
          /\ municode_client.closes = 1
          /\ Released
    /\ (phase = "exit" /\ cause \notin Causes) => municode_client = NoClient
    /\ Released => \A i \in Invocations : pc[i] # "awaiting"

\* C15: the process never holds more than one connection pool; the pool is
\* created at import, before any call is served; whichever way main ends
\* (return, KeyboardInterrupt, another exception) the finally clause then
\* releases the pool, once, and the process exits only with the pool
\* released exactly once; and once the pool is released no invocation issues
\* a request or receives a reply, and the pool is never reopened.
C15_OnePoolReleasedOnce ==
    /\ []OnePoolReleasedOnce
    /\ [][Released => /\ sent' = sent
                      /\ received' = received
                      /\ municode_client' = municode_client]_vars
    /\ \A how \in Causes : (phase = "finally" /\ cause = how) ~> Released

\* C15 witness: main ended with an exception while a call was suspended in
\* its second request; the call was cancelled and the pool released once.
C15_Witness ==
    /\ phase = "exit"
    /\ cause = "Exception"
    /\ municode_client.closes = 1
    /\ Released
    /\ \E i \in Invocations :
          /\ pc[i] = "cancelled"
          /\ Len(sent[i]) = 2
          /\ Len(received[i]) = 1

====
